---- MODULE Spec2Model ----
(***************************************************************************)
(* A model of jamboree_converter.py: the page-size table, the extraction   *)
(* of Plotly payloads with placeholder injection, the in-tab script that   *)
(* coordinates chart rendering (renderPlotlyCharts), and the host side of  *)
(* convert_with_playwright_direct / convert_with_working_pagesize / main.  *)
(*                                                                         *)
(* Time is in milliseconds.  The browser tab is single-threaded: every     *)
(* callback (DOMContentLoaded, a timer, a promise reaction) is one action. *)
(* JavaScript indices are 0-based; sequences here are 1-based, so chart    *)
(* index k lives at position k + 1.                                        *)
(***************************************************************************)
EXTENDS Integers, Sequences, FiniteSets, TLC

VARIABLES
    now,        \* the page's clock, ms since the page was created (0 without a page)
    tabOpen,    \* the browser page exists (between new_page/goto and page.close)
    tab,        \* the page's script state: window globals, timers, promises, document
    pc,         \* the host's position in main and the conversion operations
    args,       \* the command line: page_size, orientation, method, output
    environ,    \* os.environ: the value of JAMBOREE_DEBUG_HTML
    files,      \* the files the program created or wrote: path |-> content
    notebookFile, \* the parsed content of the input .ipynb file
    tp,         \* frame of convert_with_working_pagesize
    pw,         \* frame of convert_with_playwright_direct
    log,        \* what the host has printed for the operator
    exit        \* the process exit status ("running" until sys.exit)

tabVars == <<now, tabOpen, tab>>
hostVars == <<pc, args, environ, files, notebookFile, tp, pw, log, exit>>
vars == <<now, tabOpen, tab, pc, args, environ, files, notebookFile, tp, pw, log, exit>>

-----------------------------------------------------------------------------
(* Bounds of the model *)

\* largest number of Plotly payloads embedded in a document
MaxCharts == 2

\* largest number of cells of a notebook, and of outputs of a cell
MaxCells == 2
MaxOutputs == 2

\* delays (ms) between the script running and DOMContentLoaded
ReadyDelays == {0, 100}

\* instants (ms after the script ran) at which a late charting library may appear
LibLoadTimes == {1000, 60100}

-----------------------------------------------------------------------------
(* Program constants of the in-tab script *)

LoadCeiling == 60000
PollInterval == 250
RenderTimeout == 120000

FallbackId == "plotly-fallback-container"
ForeignId == "user-div"

\* f"jamboree-plotly-{plotly_index}"
PlaceholderId(k) == "jamboree-plotly-" \o ToString(k)

Min(S) == CHOOSE m \in S : \A x \in S : m <= x

-----------------------------------------------------------------------------
(* The in-tab script *)

markPlotlyComplete(w) == [w EXCEPT !.plotlyRenderingComplete = TRUE]

\* mutant of onDrawFulfilled: a fulfilled draw is counted twice
onDrawFulfilled_countsTwice(w) ==
    LET w1 == [w EXCEPT !.plotlyRenderedCount = @ + 2]
    IN  IF w1.plotlyRenderedCount >= Len(w1.plotlyChartsData)
        THEN markPlotlyComplete(w1)
        ELSE w1

\* mutant of onDrawFulfilled: the flag is recomputed from the count
onDrawFulfilled_recomputes(w) ==
    LET w1 == [w EXCEPT !.plotlyRenderedCount = @ + 1]
    IN  [w1 EXCEPT !.plotlyRenderingComplete =
                      w1.plotlyRenderedCount >= Len(w1.plotlyChartsData)]

\* the reaction of .then(...): the draw succeeded
onDrawFulfilled(w) ==
    LET w1 == [w EXCEPT !.plotlyRenderedCount = @ + 1]
    IN  IF w1.plotlyRenderedCount >= Len(w1.plotlyChartsData)
        THEN markPlotlyComplete(w1)
        ELSE w1

\* mutant of onDrawFailed: a failed draw sets the failed flag
onDrawFailed_setsFailed(w, e) ==
    LET w1 == [w EXCEPT !.console = @ \cup {"error: Failed to render chart"},
                        !.plotlyLastError = e,
                        !.plotlyRenderFailed = TRUE,
                        !.plotlyRenderedCount = @ + 1]
    IN  IF w1.plotlyRenderedCount >= Len(w1.plotlyChartsData)
        THEN markPlotlyComplete(w1)
        ELSE w1

\* mutant of onDrawFailed: any failed draw ends the rendering
onDrawFailed_completes(w, e) ==
    markPlotlyComplete(
        [w EXCEPT !.console = @ \cup {"error: Failed to render chart"},
                  !.plotlyLastError = e,
                  !.plotlyRenderedCount = @ + 1])

\* mutant of onDrawFailed: a failed draw is recorded but not counted
onDrawFailed_uncounted(w, e) ==
    [w EXCEPT !.console = @ \cup {"error: Failed to render chart"},
              !.plotlyLastError = e]

\* the reaction of .catch(...) and the catch block: the draw failed
onDrawFailed(w, e) ==
    LET w1 == [w EXCEPT !.console = @ \cup {"error: Failed to render chart"},
                        !.plotlyLastError = e,
                        !.plotlyRenderedCount = @ + 1]
    IN  IF w1.plotlyRenderedCount >= Len(w1.plotlyChartsData)
        THEN markPlotlyComplete(w1)
        ELSE w1

\* the element chart index k is drawn into, given the candidate list
drawTarget(candidates, k) ==
    IF k < Len(candidates) THEN candidates[k + 1] ELSE FallbackId

\* mutant of issueDraws: only the first loop, over the candidates
RECURSIVE issueDraws_candidatesOnly(_, _, _, _)
issueDraws_candidatesOnly(w, k, candidates, throws) ==
    IF k >= Len(w.plotlyChartsData) \/ k >= Len(candidates) THEN w
    ELSE LET d  == [target |-> candidates[k + 1],
                    data   |-> w.plotlyChartsData[k + 1],
                    status |-> IF k \in throws THEN "threw" ELSE "pending"]
             w1 == [w EXCEPT !.draws = Append(@, d)]
             w2 == IF k \in throws THEN onDrawFailed(w1, "thrown") ELSE w1
         IN  issueDraws_candidatesOnly(w2, k + 1, candidates, throws)

\* one iteration of either draw loop: chart index k is issued; it either
\* throws synchronously (k \in throws) or leaves a pending promise
RECURSIVE issueDraws(_, _, _, _)
issueDraws(w, k, candidates, throws) ==
    IF k >= Len(w.plotlyChartsData) THEN w
    ELSE LET d  == [target |-> drawTarget(candidates, k),
                    data   |-> w.plotlyChartsData[k + 1],
                    status |-> IF k \in throws THEN "threw" ELSE "pending"]
             w1 == [w EXCEPT !.draws = Append(@, d)]
             w2 == IF k \in throws THEN onDrawFailed(w1, "thrown") ELSE w1
         IN  issueDraws(w2, k + 1, candidates, throws)

\* mutant of waitForLibrary: the ceiling is tested with >= instead of >
waitForLibrary_atCeiling(w, t) ==
    IF (t - w.plotlyLoadStartTime) >= LoadCeiling
    THEN markPlotlyComplete(
           [w EXCEPT !.console = @ \cup {"warn: Plotly did not load within 60s"},
                     !.plotlyRenderFailed = TRUE])
    ELSE [w EXCEPT !.pollTimers = @ \cup {t + PollInterval}]

\* the branch taken while typeof Plotly === 'undefined'
waitForLibrary(w, t) ==
    IF (t - w.plotlyLoadStartTime) > LoadCeiling
    THEN markPlotlyComplete(
           [w EXCEPT !.console = @ \cup {"warn: Plotly did not load within 60s"},
                     !.plotlyRenderFailed = TRUE])
    ELSE [w EXCEPT !.pollTimers = @ \cup {t + PollInterval}]

\* mutant of startRendering: the 120000 ms timer is not armed
startRendering_noTimer(w, t, throws) ==
    LET w1 == [w EXCEPT !.plotlyRenderStarted = TRUE]
        none == Len(w1.placeholders) = 0
        candidates == IF none THEN <<FallbackId>> ELSE w1.placeholders
    IN  issueDraws(w1, 0, candidates, throws)

\* the rest of renderPlotlyCharts once the library is there: collect the
\* candidates, issue every draw, arm the 120000 ms timer
startRendering(w, t, throws) ==
    LET w1 == [w EXCEPT !.plotlyRenderStarted = TRUE]
        none == Len(w1.placeholders) = 0
        w2 == IF none
              THEN [w1 EXCEPT !.console = @ \cup {"warn: No Plotly placeholders detected"}]
              ELSE w1
        candidates == IF none THEN <<FallbackId>> ELSE w2.placeholders
        w3 == issueDraws(w2, 0, candidates, throws)
    IN  [w3 EXCEPT !.renderTimers = @ \cup {t + RenderTimeout}]

\* mutant of renderPlotlyCharts: the library is tested before the chart count
renderPlotlyCharts_libraryFirst(w, t, throws) ==
    IF w.plotlyRenderStarted THEN w
    ELSE IF ~w.Plotly THEN waitForLibrary(w, t)
    ELSE IF Len(w.plotlyChartsData) = 0 THEN markPlotlyComplete(w)
    ELSE startRendering(w, t, throws)

renderPlotlyCharts(w, t, throws) ==
    IF w.plotlyRenderStarted THEN w
    ELSE IF Len(w.plotlyChartsData) = 0 THEN markPlotlyComplete(w)
    ELSE IF ~w.Plotly THEN waitForLibrary(w, t)
    ELSE startRendering(w, t, throws)

\* mutant of onRenderTimeout: the timeout is recorded but Complete is not set
onRenderTimeout_failedOnly(w) ==
    IF ~w.plotlyRenderingComplete
    THEN [w EXCEPT !.console = @ \cup {"warn: Plotly rendering timeout fallback triggered"},
                   !.plotlyRenderFailed = TRUE]
    ELSE w

\* the callback of setTimeout(..., 120000)
onRenderTimeout(w) ==
    IF ~w.plotlyRenderingComplete
    THEN markPlotlyComplete(
           [w EXCEPT !.console = @ \cup {"warn: Plotly rendering timeout fallback triggered"},
                     !.plotlyRenderFailed = TRUE])
    ELSE w

\* a freshly loaded document, before its scripts have run
newDocument(data, placeholders, plotly, readyState, readyDelay) ==
    [scripted                |-> FALSE,
     plotlyChartsData        |-> data,
     plotlyRenderingComplete |-> FALSE,
     plotlyRenderedCount     |-> 0,
     plotlyRenderStarted     |-> FALSE,
     plotlyRenderFailed      |-> FALSE,
     plotlyLastError         |-> "null",
     plotlyLoadStartTime     |-> 0,
     Plotly                  |-> plotly,
     placeholders            |-> placeholders,
     draws                   |-> <<>>,
     pollTimers              |-> {},
     renderTimers            |-> {},
     listener                |-> FALSE,
     readyState              |-> readyState,
     readyDelay              |-> readyDelay,
     MathJax                 |-> FALSE,
     typesetPasses           |-> 0,
     console                 |-> {}]

\* the assignments at the head of the script
scriptGlobals(w, t) ==
    [w EXCEPT !.scripted                = TRUE,
              !.plotlyRenderingComplete = FALSE,
              !.plotlyRenderedCount     = 0,
              !.plotlyRenderStarted     = FALSE,
              !.plotlyRenderFailed      = FALSE,
              !.plotlyLastError         = "null",
              !.plotlyLoadStartTime     = t]

\* the whole script: globals, then render at once or on DOMContentLoaded
plotlyScript(w, t, throws) ==
    IF w.readyState \in {"complete", "interactive"}
    THEN renderPlotlyCharts(scriptGlobals(w, t), t, throws)
    ELSE [scriptGlobals(w, t) EXCEPT !.listener = TRUE]

\* no page, or a page that has been closed: its state is discarded
blankTab == newDocument(<<>>, <<>>, FALSE, "loading", 0)

\* the instant DOMContentLoaded is dispatched
readyAt(w) == w.plotlyLoadStartTime + w.readyDelay

-----------------------------------------------------------------------------
(* Documents the tab may be given *)

chartIndexes(n) == 0 .. (n - 1)

\* payload sequences of the stand-alone tab: n opaque chart descriptions
TabCharts(n) == [k \in 1 .. n |-> "fig"]

\* the placeholder-class elements of a document with n charts, in document
\* order: any of the n injected placeholders may be missing, and one foreign
\* element carrying the class may sit anywhere among them
IsDom(s, n) ==
    /\ \A i, j \in 1 .. Len(s) : i < j => s[i] # s[j]
    /\ \A i, j \in 1 .. Len(s) :
         \A a, b \in chartIndexes(n) :
            (s[i] = PlaceholderId(a) /\ s[j] = PlaceholderId(b) /\ i < j) => a < b

DomElements(n) == {PlaceholderId(k) : k \in chartIndexes(n)} \cup {ForeignId}

Doms(n) ==
    {s \in UNION {[1 .. m -> DomElements(n)] : m \in 0 .. (n + 1)} : IsDom(s, n)}

-----------------------------------------------------------------------------
(* The page-size table and its resolution *)

\* Standard page sizes (width x height in mm)
PAGE_SIZES ==
    [k \in {"a0", "a1", "a2", "a3", "a4", "a5", "letter", "legal",
            "tabloid", "ledger", "case_study"} |->
        CASE k = "a0"         -> <<841, 1189>>
          [] k = "a1"         -> <<594, 841>>
          [] k = "a2"         -> <<420, 594>>
          [] k = "a3"         -> <<297, 420>>
          [] k = "a4"         -> <<210, 297>>
          [] k = "a5"         -> <<148, 210>>
          [] k = "letter"     -> <<216, 279>>
          [] k = "legal"      -> <<216, 356>>
          [] k = "tabloid"    -> <<279, 432>>
          [] k = "ledger"     -> <<432, 279>>
          [] k = "case_study" -> <<420, 1189>>]

\* the page sizes and orientations given on the command line: every key of
\* the table, one key in upper case, one key the table does not hold
PageSizeInputs == DOMAIN PAGE_SIZES \cup {"A3", "b5"}
OrientationInputs == {"portrait", "landscape"}
MethodInputs == {"template", "playwright", "both"}

\* --output: omitted, or a file name without extension
OutputInputs == {"None", "out"}

\* JAMBOREE_DEBUG_HTML: unset, or "1"
DebugInputs == {"", "1"}

\* str.lower() on the strings above
Lower(str) == IF str = "A3" THEN "a3" ELSE str

\* mutant of resolveDimensions: landscape does not swap
resolveDimensions_noSwap(page_size, orientation) ==
    IF Lower(page_size) \in DOMAIN PAGE_SIZES
    THEN <<TRUE, PAGE_SIZES[Lower(page_size)][1], PAGE_SIZES[Lower(page_size)][2]>>
    ELSE <<FALSE, 0, 0>>

\* "Get dimensions" and "Swap for landscape": <<known, width, height>>
resolveDimensions(page_size, orientation) ==
    IF Lower(page_size) \in DOMAIN PAGE_SIZES
    THEN LET wh == PAGE_SIZES[Lower(page_size)]
         IN  IF Lower(orientation) = "landscape"
             THEN <<TRUE, wh[2], wh[1]>>
             ELSE <<TRUE, wh[1], wh[2]>>
    ELSE <<FALSE, 0, 0>>

\* create_custom_html_template: the dimensions it puts in the @page rules;
\* a key the table does not hold is replaced by 'a4' without a message
create_custom_html_template(page_size, orientation) ==
    LET wh == IF Lower(page_size) \in DOMAIN PAGE_SIZES
              THEN PAGE_SIZES[Lower(page_size)] ELSE PAGE_SIZES["a4"]
    IN  IF Lower(orientation) = "landscape"
        THEN [width |-> wh[2], height |-> wh[1]]
        ELSE [width |-> wh[1], height |-> wh[2]]

-----------------------------------------------------------------------------
(* Files *)

\* the input notebook, Path(notebook_file).stem, and the names tempfile gives
NotebookPath == "nb.ipynb"
Stem == "nb"
TemplateTemp == "tmp.html.j2"
NotebookTemp == "tmp.ipynb"
HtmlTemp == "tmp.html"

\* f.write(...) / page.pdf(path=...) and os.unlink(...) on the file system
writeFile(fs, path, content) ==
    [p \in (DOMAIN fs) \cup {path} |-> IF p = path THEN content ELSE fs[p]]
unlink(fs, path) == [p \in (DOMAIN fs) \ {path} |-> fs[p]]

\* f"_{page_size}_{orientation}" if page_size != 'a4' or orientation != 'portrait' else ""
size_suffix(page_size, orientation) ==
    IF page_size # "a4" \/ orientation # "portrait"
    THEN "_" \o page_size \o "_" \o orientation
    ELSE ""

\* "Generate filename" of convert_with_working_pagesize
tpOutputFile(output_file, page_size, orientation) ==
    IF output_file = "None"
    THEN Stem \o "_sized" \o size_suffix(page_size, orientation) \o ".pdf"
    ELSE output_file \o ".pdf"

\* the output name of convert_with_playwright_direct
pwOutputFile(output_file, page_size, orientation) ==
    IF output_file = "None"
    THEN Stem \o "_playwright" \o size_suffix(page_size, orientation) \o ".pdf"
    ELSE output_file \o ".pdf"

-----------------------------------------------------------------------------
(* Notebooks and the extraction of Plotly payloads *)

PlotlyMime == "application/vnd.plotly.v1+json"
HtmlMime == "text/html"
PlainMime == "text/plain"

\* f'<div id="{placeholder_id}" class="jamboree-plotly-placeholder"></div>'
placeholderDiv(id) == "<div id=" \o id \o " class=jamboree-plotly-placeholder>"

\* the chart description held by output o of cell c (opaque, one per position)
Payload(c, o) == "fig-" \o ToString(c) \o "-" \o ToString(o)

\* an output of cell c at position o: a stream output (no 'data' key), a
\* display output without a chart, or a display output with a chart
streamOutput == [hasData |-> FALSE, data |-> <<>>]
displayOutput == [hasData |-> TRUE, data |-> [m \in {PlainMime} |-> "text"]]
plotlyOutput(c, o) == [hasData |-> TRUE, data |-> [m \in {PlotlyMime} |-> Payload(c, o)]]

OutputsAt(c, o) == {streamOutput, displayOutput, plotlyOutput(c, o)}

\* every list of exactly m outputs of cell c
RECURSIVE OutputListsOf(_, _)
OutputListsOf(c, m) ==
    IF m = 0 THEN {<<>>}
    ELSE {Append(s, x) : s \in OutputListsOf(c, m - 1), x \in OutputsAt(c, m)}

\* every list of at most MaxOutputs outputs of cell c
OutputLists(c) == UNION {OutputListsOf(c, m) : m \in 0 .. MaxOutputs}

\* what a markdown cell may carry: nothing, as in a well-formed notebook, or
\* one chart, the case the cell_type test of the loop is there for
MarkdownOutputLists(c) == {<<>>, <<plotlyOutput(c, 1)>>}

CellsAt(c) ==
    {[cell_type |-> "code", outputs |-> os] : os \in OutputLists(c)} \cup
    {[cell_type |-> "markdown", outputs |-> os] : os \in MarkdownOutputLists(c)}

\* every notebook of exactly m cells
RECURSIVE NotebooksOf(_)
NotebooksOf(m) ==
    IF m = 0 THEN {<<>>}
    ELSE {Append(s, x) : s \in NotebooksOf(m - 1), x \in CellsAt(m)}

hasPlotly(output) == output.hasData /\ PlotlyMime \in DOMAIN output.data

\* output['data']['text/html'] = ...
setHtml(output, html) ==
    [output EXCEPT !.data = [m \in (DOMAIN output.data) \cup {HtmlMime} |->
                                IF m = HtmlMime THEN html ELSE output.data[m]]]

\* mutant of extractOutput: the payload is moved out of the output
extractOutput_popsPayload(st, c, o) ==
    LET output == st.notebook[c].outputs[o]
    IN  IF output.hasData /\ PlotlyMime \in DOMAIN output.data
        THEN [notebook      |-> [st.notebook EXCEPT ![c].outputs[o] =
                                    [output EXCEPT !.data =
                                        [m \in {HtmlMime} |->
                                            placeholderDiv(PlaceholderId(st.plotly_index))]]],
              plotly_charts |-> Append(st.plotly_charts, output.data[PlotlyMime]),
              plotly_index  |-> st.plotly_index + 1]
        ELSE st

\* mutant of extractOutput: the index is incremented before the id is formed
extractOutput_indexFirst(st, c, o) ==
    LET output == st.notebook[c].outputs[o]
    IN  IF output.hasData /\ PlotlyMime \in DOMAIN output.data
        THEN [notebook      |-> [st.notebook EXCEPT ![c].outputs[o] =
                                    [output EXCEPT !.data =
                                        [m \in (DOMAIN output.data) \cup {HtmlMime} |->
                                            IF m = HtmlMime
                                            THEN placeholderDiv(PlaceholderId(st.plotly_index + 1))
                                            ELSE output.data[m]]]],
              plotly_charts |-> Append(st.plotly_charts, output.data[PlotlyMime]),
              plotly_index  |-> st.plotly_index + 1]
        ELSE st

\* the body of the inner loop for one output; st is the loop state
\* [notebook, plotly_charts, plotly_index]
extractOutput(st, c, o) ==
    LET output == st.notebook[c].outputs[o]
    IN  IF hasPlotly(output)
        THEN [notebook      |-> [st.notebook EXCEPT ![c].outputs[o] =
                                    setHtml(output, placeholderDiv(PlaceholderId(st.plotly_index)))],
              plotly_charts |-> Append(st.plotly_charts, output.data[PlotlyMime]),
              plotly_index  |-> st.plotly_index + 1]
        ELSE st

\* for output in cell.get('outputs', []), from output o on
RECURSIVE extractOutputs(_, _, _)
extractOutputs(st, c, o) ==
    IF o > Len(st.notebook[c].outputs) THEN st
    ELSE extractOutputs(extractOutput(st, c, o), c, o + 1)

\* for cell in notebook.get('cells', []), from cell c on
RECURSIVE extractCells(_, _)
extractCells(st, c) ==
    IF c > Len(st.notebook) THEN st
    ELSE IF st.notebook[c].cell_type = "code"
         THEN extractCells(extractOutputs(st, c, 1), c + 1)
         ELSE extractCells(st, c + 1)

\* the extraction loop of convert_with_playwright_direct
extractPlotly(notebook) ==
    extractCells([notebook |-> notebook, plotly_charts |-> <<>>, plotly_index |-> 0], 1)

-----------------------------------------------------------------------------
(* The host: frames of the two conversion operations *)

\* the timeouts the host gives its waits, and its settling delay
NetworkIdleTimeout == 5000
PlotlyLoadTimeout == 60000
PlotlyCompleteTimeout == 180000
MathJaxTimeout == 40000
SettleDelay == 500

\* locals of convert_with_working_pagesize
noTp ==
    [calls         |-> 0,         \* how many times main called the operation
     width         |-> 0,
     height        |-> 0,
     template      |-> [width |-> 0, height |-> 0],   \* what the template holds
     template_file |-> "None",
     output_file   |-> "None",
     raised        |-> "none",    \* the step whose exception ended the conversion
     result        |-> "none"]

\* locals of convert_with_playwright_direct, and what it has done so far
noPw ==
    [calls         |-> 0,         \* how many times main called the operation
     width         |-> 0,
     height        |-> 0,
     notebook      |-> <<>>,      \* the in-memory notebook
     plotly_charts |-> <<>>,
     has_math      |-> FALSE,
     placeholders  |-> <<>>,      \* placeholder-class elements of html_body
     html_file     |-> "None",
     debug_html    |-> "None",
     output_file   |-> "None",
     deadline      |-> 0,         \* when the current timed wait gives up
     waited        |-> {},        \* the waits entered
     timedOut      |-> {},        \* the waits that timed out
     typeset       |-> "none",    \* page.evaluate(typesetPromise): none, returned, raised
     pdf           |-> <<>>,      \* the page.pdf commands issued
     raised        |-> "none",    \* the step whose exception ended the conversion
     result        |-> "none"]

\* the documents nbconvert may produce from a notebook with n placeholders:
\* all of them kept, none of them kept, the first one lost
HostDoms(n) ==
    {[k \in 1 .. n |-> PlaceholderId(k - 1)], <<>>}
      \cup (IF n > 1 THEN {[k \in 1 .. (n - 1) |-> PlaceholderId(k)]} ELSE {})

\* the notebooks handed to main: n code cells with one chart each
HostNotebook(n) ==
    [c \in 1 .. n |-> [cell_type |-> "code", outputs |-> <<plotlyOutput(c, 1)>>]]

\* a step of the host: where it goes, its frame, what it printed
step(p, f, lg) == [pc |-> p, pw |-> f, log |-> lg]

\* page.wait_for_timeout(500) before page.pdf
toSettle(f, lg, t) ==
    step("pw_settle", [f EXCEPT !.deadline = t + SettleDelay], lg)

\* if has_math: ... else: ...
toMath(f, lg, t) ==
    IF f.has_math
    THEN step("wait_mathjax",
              [f EXCEPT !.deadline = t + MathJaxTimeout, !.waited = @ \cup {"mathjax"}],
              lg \cup {"Waiting for MathJax to render formulas"})
    ELSE toSettle(f, lg \cup {"info: No MathJax/TeX detected"}, t)

\* mutant of toCharts: the Plotly waits are skipped
toCharts_noWait(f, lg, t) == toMath(f, lg, t)

\* if len(plotly_charts) > 0: ... else: ...
toCharts(f, lg, t) ==
    IF Len(f.plotly_charts) > 0
    THEN step("wait_plotly",
              [f EXCEPT !.deadline = t + PlotlyLoadTimeout, !.waited = @ \cup {"plotly"}],
              lg \cup {"Waiting for Plotly chart(s) to render"})
    ELSE toMath(f, lg \cup {"info: No Plotly charts found"}, t)

\* mutant of onPlotlyWaitTimeout: the timeout ends the conversion
onPlotlyWaitTimeout_aborts(f, lg, t, wait) ==
    [pc  |-> "main_exit",
     pw  |-> [f EXCEPT !.timedOut = @ \cup {wait}, !.raised = "timeout", !.result = "False"],
     log |-> lg \cup {"warn: Plotly rendering timeout", "error: Playwright conversion failed"}]

\* except Exception around the two Plotly waits
onPlotlyWaitTimeout(f, lg, t, wait) ==
    toMath([f EXCEPT !.timedOut = @ \cup {wait}],
           lg \cup {"warn: Plotly rendering timeout", "Continuing anyway"}, t)

\* except Exception around the MathJax wait and the typeset pass
onMathJaxWaitTimeout(f, lg, t) ==
    toSettle([f EXCEPT !.timedOut = @ \cup {"mathjax"}],
             lg \cup {"warn: MathJax wait skipped"}, t)

\* except ImportError / except Exception of convert_with_playwright_direct
pwFails(f, lg, where) ==
    step("main_exit", [f EXCEPT !.raised = where, !.result = "False"],
         lg \cup {IF where = "import" THEN "error: Playwright not available"
                  ELSE "error: Playwright conversion failed"})

\* except Exception of convert_with_working_pagesize
tpFails(f, lg, where) ==
    [pc  |-> "main_pw",
     tp  |-> [f EXCEPT !.raised = where, !.result = "False"],
     log |-> lg \cup {"error: Conversion failed"}]

\* the finally block of convert_with_playwright_direct: os.unlink(html_file),
\* and os.unlink(debug_html) if debug_html
unlinkHtml(fs, f) ==
    IF f.debug_html # "None"
    THEN unlink(unlink(fs, f.html_file), f.debug_html)
    ELSE unlink(fs, f.html_file)

\* the arguments of page.pdf, and what the page shows when it is printed
pdfCommand(f, w) ==
    [width          |-> f.width,
     height         |-> f.height,
     chartsComplete |-> w.plotlyRenderingComplete,
     chartsFailed   |-> {i \in 1 .. Len(w.draws) : w.draws[i].status \in {"rejected", "threw"}},
     typesetPasses  |-> w.typesetPasses]

-----------------------------------------------------------------------------
(* The host: main and convert_with_working_pagesize *)

\* main, up to the first conversion
Main ==
    /\ pc = "main"
    /\ pc' = IF args.method \in {"template", "both"} THEN "tp_resolve" ELSE "pw_import"
    /\ log' = log \cup {"Converting"}
    /\ UNCHANGED <<args, environ, files, notebookFile, tp, pw, exit>>
    /\ UNCHANGED tabVars

\* convert_with_working_pagesize is entered: dimensions
TpResolve ==
    /\ pc = "tp_resolve"
    /\ LET r == resolveDimensions(args.page_size, args.orientation)
           f == [tp EXCEPT !.calls = @ + 1]
       IN  IF r[1]
           THEN /\ tp' = [f EXCEPT !.width = r[2], !.height = r[3]]
                /\ pc' = "tp_template"
                /\ log' = log \cup {"Target"}
           ELSE /\ tp' = [f EXCEPT !.result = "False"]
                /\ pc' = "main_pw"
                /\ log' = log \cup {"error: Unknown page size"}
    /\ UNCHANGED <<args, environ, files, notebookFile, pw, exit>>
    /\ UNCHANGED tabVars

\* create_custom_html_template, and the temporary template file: it is
\* created (delete=False) and then written, before the inner try is entered
TpTemplate ==
    /\ pc = "tp_template"
    /\ \E wrote \in BOOLEAN :
         IF wrote
         THEN /\ files' = writeFile(files, TemplateTemp, "template")
              /\ tp' = [tp EXCEPT !.template = create_custom_html_template(args.page_size, args.orientation),
                                  !.template_file = TemplateTemp]
              /\ pc' = "tp_export"
              /\ UNCHANGED log
         ELSE /\ files' = writeFile(files, TemplateTemp, "partial")
              /\ LET s == tpFails(tp, log, "template")
                 IN  pc' = s.pc /\ tp' = s.tp /\ log' = s.log
    /\ UNCHANGED <<args, environ, notebookFile, pw, exit>>
    /\ UNCHANGED tabVars

\* the exporter, the output name, exporter.from_filename(notebook_file)
TpExport ==
    /\ pc = "tp_export"
    /\ LET f == [tp EXCEPT !.output_file = tpOutputFile(args.output, args.page_size, args.orientation)]
       IN  \E ok \in BOOLEAN :
             IF ok
             THEN /\ tp' = f
                  /\ pc' = "tp_write"
                  /\ log' = log \cup {"Converting with custom template"}
                  /\ UNCHANGED files
             ELSE /\ files' = unlink(files, f.template_file)
                  /\ LET s == tpFails(f, log, "export")
                     IN  pc' = s.pc /\ tp' = s.tp /\ log' = s.log
    /\ UNCHANGED <<args, environ, notebookFile, pw, exit>>
    /\ UNCHANGED tabVars

\* with open(output_file, 'wb') as f: f.write(body)
TpWrite ==
    /\ pc = "tp_write"
    /\ \E wrote \in BOOLEAN :
         IF wrote
         THEN /\ files' = writeFile(files, tp.output_file, "pdf by template")
              /\ pc' = "tp_getsize"
              /\ UNCHANGED <<tp, log>>
         ELSE /\ files' = unlink(writeFile(files, tp.output_file, "partial pdf by template"),
                                 tp.template_file)
              /\ LET s == tpFails(tp, log, "write")
                 IN  pc' = s.pc /\ tp' = s.tp /\ log' = s.log
    /\ UNCHANGED <<args, environ, notebookFile, pw, exit>>
    /\ UNCHANGED tabVars

\* os.path.getsize(output_file); return True; the finally block
TpReturn ==
    /\ pc = "tp_getsize"
    /\ files' = unlink(files, tp.template_file)
    /\ \E ok \in BOOLEAN :
         IF ok
         THEN /\ tp' = [tp EXCEPT !.result = "True"]
              /\ pc' = "main_pw"
              /\ log' = log \cup {"Created (template)"}
         ELSE LET s == tpFails(tp, log, "getsize")
              IN  pc' = s.pc /\ tp' = s.tp /\ log' = s.log
    /\ UNCHANGED <<args, environ, notebookFile, pw, exit>>
    /\ UNCHANGED tabVars

\* mutant of playwrightSelected: the second method runs only if the first succeeded
playwrightSelected_afterSuccess(method, success) ==
    method \in {"playwright", "both"} /\ success

\* if args.method in ['playwright', 'both'], with success as it stands then
playwrightSelected(method, success) == method \in {"playwright", "both"}

\* mutant of success: success = result
success_lastResult(tpResult, pwResult) ==
    IF pwResult # "none" THEN pwResult = "True" ELSE tpResult # "False"

\* success = True, then success = success and result after each method
success(tpResult, pwResult) == tpResult # "False" /\ pwResult # "False"

\* main, between the two conversions
MainPlaywright ==
    /\ pc = "main_pw"
    /\ pc' = IF playwrightSelected(args.method, success(tp.result, pw.result))
             THEN "pw_import" ELSE "main_exit"
    /\ UNCHANGED <<args, environ, files, notebookFile, tp, pw, log, exit>>
    /\ UNCHANGED tabVars

\* main, after the conversions: sys.exit(0 if success else 1)
MainExit ==
    /\ pc = "main_exit"
    /\ pc' = "done"
    /\ exit' = IF success(tp.result, pw.result) THEN "0" ELSE "1"
    /\ log' = log \cup {IF success(tp.result, pw.result)
                        THEN "Conversion completed successfully"
                        ELSE "error: Conversion failed (main)"}
    /\ UNCHANGED <<args, environ, files, notebookFile, tp, pw>>
    /\ UNCHANGED tabVars

-----------------------------------------------------------------------------
(* The host: convert_with_playwright_direct *)

\* from playwright.sync_api import sync_playwright
PwImport ==
    /\ pc = "pw_import"
    /\ \E installed \in BOOLEAN :
         LET f == [pw EXCEPT !.calls = @ + 1]
             s == IF installed THEN step("pw_resolve", f, log)
                  ELSE pwFails(f, log, "import")
         IN  pc' = s.pc /\ pw' = s.pw /\ log' = s.log
    /\ UNCHANGED <<args, environ, files, notebookFile, tp, exit>>
    /\ UNCHANGED tabVars

\* dimensions
PwResolve ==
    /\ pc = "pw_resolve"
    /\ LET r == resolveDimensions(args.page_size, args.orientation)
       IN  IF r[1]
           THEN /\ pw' = [pw EXCEPT !.width = r[2], !.height = r[3]]
                /\ pc' = "pw_read"
                /\ log' = log \cup {"Playwright"}
           ELSE /\ pw' = [pw EXCEPT !.result = "False"]
                /\ pc' = "main_exit"
                /\ log' = log \cup {"error: Unknown page size"}
    /\ UNCHANGED <<args, environ, files, notebookFile, tp, exit>>
    /\ UNCHANGED tabVars

\* with open(notebook_file, 'r') as f: notebook = json.load(f)
PwRead ==
    /\ pc = "pw_read"
    /\ \E ok \in BOOLEAN :
         LET s == IF ok THEN step("pw_extract", [pw EXCEPT !.notebook = notebookFile], log)
                  ELSE pwFails(pw, log, "read")
         IN  pc' = s.pc /\ pw' = s.pw /\ log' = s.log
    /\ UNCHANGED <<args, environ, files, notebookFile, tp, exit>>
    /\ UNCHANGED tabVars

\* the extraction loop
PwExtract ==
    /\ pc = "pw_extract"
    /\ LET st == extractPlotly(pw.notebook)
       IN  pw' = [pw EXCEPT !.notebook = st.notebook, !.plotly_charts = st.plotly_charts]
    /\ pc' = "pw_export"
    /\ log' = log \cup {"Found Plotly chart(s) in notebook"}
    /\ UNCHANGED <<args, environ, files, notebookFile, tp, exit>>
    /\ UNCHANGED tabVars

\* what a notebook file holds: the source as it was read, or the notebook
\* with the placeholder markup in its outputs
notebookText(notebook, source) ==
    IF notebook = source THEN "ipynb" ELSE "ipynb with placeholders"

\* mutant of dumpNotebook: the notebook is written back to notebook_file
dumpNotebook_inPlace(fs, text) == writeFile(fs, NotebookPath, text)

\* json.dump(notebook, nf) into the temporary notebook file
dumpNotebook(fs, text) == writeFile(fs, NotebookTemp, text)

\* the temporary notebook file is created (delete=False) and written by
\* json.dump before the try is entered; HTMLExporter.from_filename on it;
\* the finally block unlinks it; has_math
PwExport ==
    /\ pc = "pw_export"
    /\ \/ /\ files' = writeFile(files, NotebookTemp, "partial")
          /\ LET s == pwFails(pw, log, "dump")
             IN  pc' = s.pc /\ pw' = s.pw /\ log' = s.log
       \/ /\ files' = unlink(dumpNotebook(files, notebookText(pw.notebook, notebookFile)), NotebookTemp)
          /\ LET s == pwFails(pw, log, "export")
             IN  pc' = s.pc /\ pw' = s.pw /\ log' = s.log
       \/ /\ files' = unlink(dumpNotebook(files, notebookText(pw.notebook, notebookFile)), NotebookTemp)
          /\ \E math \in BOOLEAN :
             \E html \in HostDoms(Len(pw.plotly_charts)) :
                pw' = [pw EXCEPT !.has_math = math, !.placeholders = html]
          /\ pc' = "pw_html"
          /\ log' = log \cup {"Converting to HTML"}
    /\ UNCHANGED <<args, environ, notebookFile, tp, exit>>
    /\ UNCHANGED tabVars

\* the injected CSS and script; the debug HTML file if JAMBOREE_DEBUG_HTML
\* is '1'; the temporary HTML file, created (delete=False) and written before
\* the try is entered; the output name
PwHtml ==
    /\ pc = "pw_html"
    /\ LET debug == environ = "1"
           name == Stem \o "_debug.html"
           f == IF debug THEN [pw EXCEPT !.debug_html = name] ELSE pw
           fs == IF debug THEN writeFile(files, name, "html") ELSE files
           lg == IF debug THEN log \cup {"Debug HTML saved"} ELSE log
       IN  \/ /\ debug
              /\ files' = writeFile(files, name, "partial")
              /\ LET s == pwFails(f, log, "debug")
                 IN  pc' = s.pc /\ pw' = s.pw /\ log' = s.log
           \/ /\ files' = writeFile(fs, HtmlTemp, "partial")
              /\ LET s == pwFails(f, lg, "html")
                 IN  pc' = s.pc /\ pw' = s.pw /\ log' = s.log
           \/ /\ files' = writeFile(fs, HtmlTemp, "html")
              /\ pw' = [f EXCEPT !.html_file = HtmlTemp,
                                 !.output_file = pwOutputFile(args.output, args.page_size, args.orientation)]
              /\ pc' = "pw_goto"
              /\ log' = lg \cup {"Converting HTML to PDF with Playwright"}
    /\ UNCHANGED <<args, environ, notebookFile, tp, exit>>
    /\ UNCHANGED tabVars

\* p.chromium.launch(), browser.new_page(), page.goto(...) begins
PwGoto ==
    /\ pc = "pw_goto"
    /\ \/ /\ \E plotly \in BOOLEAN :
             \E readyDelay \in ReadyDelays :
                tab' = newDocument(pw.plotly_charts, pw.placeholders, plotly,
                                   "loading", readyDelay)
          /\ tabOpen' = TRUE
          /\ pc' = "pw_loading"
          /\ UNCHANGED <<pw, log, files>>
       \/ /\ LET s == pwFails(pw, log, "goto")
             IN  pc' = s.pc /\ pw' = s.pw /\ log' = s.log
          /\ files' = unlinkHtml(files, pw)
          /\ UNCHANGED <<tab, tabOpen>>
    /\ UNCHANGED <<now, args, environ, notebookFile, tp, exit>>

\* page.goto returns on the load event; wait_for_load_state("networkidle")
\* finds the network idle at once, or keeps waiting
PwLoaded ==
    /\ pc = "pw_loading"
    /\ tab.scripted /\ ~tab.listener
    /\ \E idle \in BOOLEAN :
         LET s == IF idle THEN toCharts(pw, log, now)
                  ELSE step("pw_netidle",
                            [pw EXCEPT !.deadline = now + NetworkIdleTimeout], log)
         IN  pc' = s.pc /\ pw' = s.pw /\ log' = s.log
    /\ UNCHANGED <<args, environ, files, notebookFile, tp, exit>>
    /\ UNCHANGED tabVars

\* wait_for_load_state("networkidle", timeout=5000) gives up: except: pass
PwNetworkIdleTimeout ==
    /\ pc = "pw_netidle"
    /\ now >= pw.deadline
    /\ LET s == toCharts(pw, log, now)
       IN  pc' = s.pc /\ pw' = s.pw /\ log' = s.log
    /\ UNCHANGED <<args, environ, files, notebookFile, tp, exit>>
    /\ UNCHANGED tabVars

\* page.wait_for_function("typeof Plotly !== 'undefined'") returns
PwSeesPlotly ==
    /\ pc = "wait_plotly"
    /\ tab.Plotly
    /\ pc' = "wait_complete"
    /\ pw' = [pw EXCEPT !.deadline = now + PlotlyCompleteTimeout,
                        !.waited = @ \cup {"complete"}]
    /\ UNCHANGED <<args, environ, files, notebookFile, tp, log, exit>>
    /\ UNCHANGED tabVars

\* one of the two Plotly waits (timeout=60000 for the library, timeout=180000
\* for the Complete flag) times out: the except block they share
PwPlotlyTimeout ==
    /\ \/ pc = "wait_plotly" /\ ~tab.Plotly
       \/ pc = "wait_complete" /\ ~tab.plotlyRenderingComplete
    /\ now >= pw.deadline
    /\ LET s == onPlotlyWaitTimeout(pw, log, now, IF pc = "wait_plotly" THEN "plotly" ELSE "complete")
       IN  pc' = s.pc /\ pw' = s.pw /\ log' = s.log
    /\ UNCHANGED <<args, environ, files, notebookFile, tp, exit>>
    /\ UNCHANGED tabVars

\* page.wait_for_function("window.plotlyRenderingComplete === true") returns;
\* page.wait_for_timeout(500) begins
PwSeesComplete ==
    /\ pc = "wait_complete"
    /\ tab.plotlyRenderingComplete
    /\ pc' = "settle_plotly"
    /\ pw' = [pw EXCEPT !.deadline = now + SettleDelay]
    /\ UNCHANGED <<args, environ, files, notebookFile, tp, log, exit>>
    /\ UNCHANGED tabVars

\* page.wait_for_timeout(500) after the Plotly waits is over
PwPlotlySettled ==
    /\ pc = "settle_plotly"
    /\ now >= pw.deadline
    /\ LET s == toMath(pw, log \cup {"All Plotly charts rendered"}, now)
       IN  pc' = s.pc /\ pw' = s.pw /\ log' = s.log
    /\ UNCHANGED <<args, environ, files, notebookFile, tp, exit>>
    /\ UNCHANGED tabVars

\* the typesetting runtime finishes loading while the host waits for it
MathJaxLoads ==
    /\ tabOpen
    /\ pc = "wait_mathjax"
    /\ ~tab.MathJax
    /\ tab' = [tab EXCEPT !.MathJax = TRUE]
    /\ UNCHANGED <<now, tabOpen>>
    /\ UNCHANGED hostVars

\* page.wait_for_function("typeof MathJax !== 'undefined' && ...") returns;
\* page.evaluate("() => MathJax.typesetPromise()") returns or raises
PwSeesMathJax ==
    /\ pc = "wait_mathjax"
    /\ tab.MathJax
    /\ \/ /\ tab' = [tab EXCEPT !.typesetPasses = @ + 1]
          /\ pc' = "settle_math"
          /\ pw' = [pw EXCEPT !.typeset = "returned", !.deadline = now + SettleDelay]
          /\ UNCHANGED log
       \/ /\ LET s == toSettle([pw EXCEPT !.typeset = "raised"],
                               log \cup {"warn: MathJax wait skipped"}, now)
             IN  pc' = s.pc /\ pw' = s.pw /\ log' = s.log
          /\ UNCHANGED tab
    /\ UNCHANGED <<now, tabOpen, args, environ, files, notebookFile, tp, exit>>

\* page.wait_for_function("typeof MathJax ...", timeout=40000) times out
PwMathJaxTimeout ==
    /\ pc = "wait_mathjax"
    /\ ~tab.MathJax
    /\ now >= pw.deadline
    /\ LET s == onMathJaxWaitTimeout(pw, log, now)
       IN  pc' = s.pc /\ pw' = s.pw /\ log' = s.log
    /\ UNCHANGED <<args, environ, files, notebookFile, tp, exit>>
    /\ UNCHANGED tabVars

\* page.wait_for_timeout(500) after the typeset pass is over
PwMathSettled ==
    /\ pc = "settle_math"
    /\ now >= pw.deadline
    /\ LET s == toSettle(pw, log \cup {"MathJax rendering complete"}, now)
       IN  pc' = s.pc /\ pw' = s.pw /\ log' = s.log
    /\ UNCHANGED <<args, environ, files, notebookFile, tp, exit>>
    /\ UNCHANGED tabVars

\* the last page.wait_for_timeout(500) is over: page.pdf(...) writes the
\* whole file, or raises having written nothing or a part of it; the finally
\* block closes the page and the browser; on an exception the outer finally
\* unlinks the HTML files
PwPdf ==
    /\ pc = "pw_settle"
    /\ now >= pw.deadline
    /\ LET f == [pw EXCEPT !.pdf = Append(@, pdfCommand(pw, tab)), !.deadline = 0]
       IN  \/ /\ files' = writeFile(files, pw.output_file, "pdf by playwright")
              /\ LET s == step("pw_getsize", f, log)
                 IN  pc' = s.pc /\ pw' = s.pw /\ log' = s.log
           \/ /\ \/ files' = unlinkHtml(files, pw)
                 \/ files' = unlinkHtml(writeFile(files, pw.output_file, "partial pdf by playwright"), pw)
              /\ LET s == pwFails(f, log, "pdf")
                 IN  pc' = s.pc /\ pw' = s.pw /\ log' = s.log
    /\ tabOpen' = FALSE
    /\ tab' = blankTab
    /\ now' = 0
    /\ UNCHANGED <<args, environ, notebookFile, tp, exit>>

\* os.path.getsize(output_file); return True; the finally block
PwReturn ==
    /\ pc = "pw_getsize"
    /\ files' = unlinkHtml(files, pw)
    /\ \E ok \in BOOLEAN :
         LET s == IF ok THEN step("main_exit", [pw EXCEPT !.result = "True"],
                                  log \cup {"Created (playwright)"})
                  ELSE pwFails(pw, log, "getsize")
         IN  pc' = s.pc /\ pw' = s.pw /\ log' = s.log
    /\ UNCHANGED <<args, environ, notebookFile, tp, exit>>
    /\ UNCHANGED tabVars

-----------------------------------------------------------------------------
(* The browser's event loop and its environment *)

\* the injected <script> block runs while the document is being parsed
ScriptRuns ==
    /\ tabOpen
    /\ ~tab.scripted
    /\ \E throws \in SUBSET chartIndexes(Len(tab.plotlyChartsData)) :
          tab' = plotlyScript(tab, now, throws)
    /\ UNCHANGED <<now, tabOpen>>
    /\ UNCHANGED hostVars

\* document.addEventListener('DOMContentLoaded', renderPlotlyCharts)
DomContentLoaded ==
    /\ tabOpen
    /\ tab.listener
    /\ now >= readyAt(tab)
    /\ \E throws \in SUBSET chartIndexes(Len(tab.plotlyChartsData)) :
          tab' = renderPlotlyCharts([tab EXCEPT !.listener = FALSE], now, throws)
    /\ UNCHANGED <<now, tabOpen>>
    /\ UNCHANGED hostVars

\* setTimeout(renderPlotlyCharts, 250) comes due
PollTimerFires ==
    /\ tabOpen
    /\ \E due \in tab.pollTimers :
         /\ due <= now
         /\ \E throws \in SUBSET chartIndexes(Len(tab.plotlyChartsData)) :
              tab' = renderPlotlyCharts([tab EXCEPT !.pollTimers = @ \ {due}], now, throws)
    /\ UNCHANGED <<now, tabOpen>>
    /\ UNCHANGED hostVars

\* setTimeout(function() {...}, 120000) comes due
RenderTimeoutFires ==
    /\ tabOpen
    /\ \E due \in tab.renderTimers :
         /\ due <= now
         /\ tab' = onRenderTimeout([tab EXCEPT !.renderTimers = @ \ {due}])
    /\ UNCHANGED <<now, tabOpen>>
    /\ UNCHANGED hostVars

\* the promise of Plotly.newPlot for one chart is fulfilled
DrawFulfils ==
    /\ tabOpen
    /\ \E i \in 1 .. Len(tab.draws) :
         /\ tab.draws[i].status = "pending"
         /\ tab' = onDrawFulfilled([tab EXCEPT !.draws[i].status = "fulfilled"])
    /\ UNCHANGED <<now, tabOpen>>
    /\ UNCHANGED hostVars

\* the promise of Plotly.newPlot for one chart is rejected
DrawRejects ==
    /\ tabOpen
    /\ \E i \in 1 .. Len(tab.draws) :
         /\ tab.draws[i].status = "pending"
         /\ tab' = onDrawFailed([tab EXCEPT !.draws[i].status = "rejected"], "rejected")
    /\ UNCHANGED <<now, tabOpen>>
    /\ UNCHANGED hostVars

\* the charting library's script finishes loading late
PlotlyLoads ==
    /\ tabOpen
    /\ tab.scripted
    /\ ~tab.Plotly
    /\ (now - tab.plotlyLoadStartTime) \in LibLoadTimes
    /\ tab' = [tab EXCEPT !.Plotly = TRUE]
    /\ UNCHANGED <<now, tabOpen>>
    /\ UNCHANGED hostVars

\* instants at which something in the tab is scheduled
TabDeadlines ==
    tab.pollTimers \cup tab.renderTimers
      \cup (IF tab.listener THEN {readyAt(tab)} ELSE {})
      \cup (IF tab.Plotly \/ ~tab.scripted THEN {}
            ELSE {tab.plotlyLoadStartTime + t : t \in LibLoadTimes})

\* a script, timer or event that is due runs before the clock moves on
TabUrgent ==
    \/ ~tab.scripted
    \/ \E due \in tab.pollTimers \cup tab.renderTimers : due <= now
    \/ tab.listener /\ readyAt(tab) <= now

\* the host's timed waits, and the untimed wait of page.goto for the load event
TimedWaits ==
    {"pw_netidle", "wait_plotly", "wait_complete", "settle_plotly",
     "wait_mathjax", "settle_math", "pw_settle"}

HostDeadlines == IF pc \in TimedWaits THEN {pw.deadline} ELSE {}

\* the host is not blocked: it runs on before the clock moves on
HostUrgent ==
    \/ pc \notin TimedWaits \cup {"none", "done", "pw_loading"}
    \/ pc \in TimedWaits /\ pw.deadline <= now
    \/ pc = "pw_loading" /\ tab.scripted /\ ~tab.listener
    \/ pc = "wait_plotly" /\ tab.Plotly
    \/ pc = "wait_complete" /\ tab.plotlyRenderingComplete
    \/ pc = "wait_mathjax" /\ tab.MathJax

\* time passes, up to the next instant at which something is scheduled
AdvanceTime ==
    /\ tabOpen
    /\ ~TabUrgent
    /\ ~HostUrgent
    /\ {t \in TabDeadlines \cup HostDeadlines : t > now} # {}
    /\ now' = Min({t \in TabDeadlines \cup HostDeadlines : t > now})
    /\ UNCHANGED <<tabOpen, tab>>
    /\ UNCHANGED hostVars

-----------------------------------------------------------------------------
(* Specifications *)

\* the command lines: every page size, orientation and method on a notebook
\* without charts, and the playwright method on notebooks with charts
Arguments ==
    [page_size : PageSizeInputs, orientation : OrientationInputs,
     method : MethodInputs, output : OutputInputs]

ChartArguments ==
    [page_size |-> "a3", orientation |-> "landscape", method |-> "playwright", output |-> "None"]

\* <<command line, notebook, JAMBOREE_DEBUG_HTML>>
Inputs ==
    (Arguments \X {HostNotebook(0)} \X DebugInputs)
      \cup ({ChartArguments} \X {HostNotebook(n) : n \in 1 .. MaxCharts} \X {""})

\* the files before main runs: the input notebook
sourceFiles == [p \in {NotebookPath} |-> "ipynb"]

\* the whole program: main on a notebook with up to MaxCharts charts
Init ==
    /\ now = 0
    /\ tabOpen = FALSE
    /\ tab = blankTab
    /\ pc = "main"
    /\ \E in \in Inputs : args = in[1] /\ notebookFile = in[2] /\ environ = in[3]
    /\ files = sourceFiles
    /\ tp = noTp
    /\ pw = noPw
    /\ log = {}
    /\ exit = "running"

TabNext ==
    \/ ScriptRuns
    \/ DomContentLoaded
    \/ PollTimerFires
    \/ RenderTimeoutFires
    \/ DrawFulfils
    \/ DrawRejects
    \/ PlotlyLoads
    \/ AdvanceTime

HostNext ==
    \/ Main
    \/ TpResolve
    \/ TpTemplate
    \/ TpExport
    \/ TpWrite
    \/ TpReturn
    \/ MainPlaywright
    \/ MainExit
    \/ PwImport
    \/ PwResolve
    \/ PwRead
    \/ PwExtract
    \/ PwExport
    \/ PwHtml
    \/ PwGoto
    \/ PwLoaded
    \/ PwNetworkIdleTimeout
    \/ PwSeesPlotly
    \/ PwPlotlyTimeout
    \/ PwSeesComplete
    \/ PwPlotlySettled
    \/ MathJaxLoads
    \/ PwSeesMathJax
    \/ PwMathJaxTimeout
    \/ PwMathSettled
    \/ PwPdf
    \/ PwReturn

Next == HostNext \/ TabNext

Spec == Init /\ [][Next]_vars

\* the tab alone: a loaded document, the script and the browser's event loop
TabInit ==
    /\ now = 0
    /\ tabOpen = TRUE
    /\ \E n \in 0 .. MaxCharts :
       \E placeholders \in Doms(n) :
       \E plotly \in BOOLEAN :
       \E readyState \in {"loading", "interactive"} :
       \E readyDelay \in ReadyDelays :
          tab = newDocument(TabCharts(n), placeholders, plotly, readyState, readyDelay)
    /\ pc = "none"
    /\ args = [page_size |-> "a4", orientation |-> "portrait", method |-> "playwright",
               output |-> "None"]
    /\ environ = ""
    /\ files = sourceFiles
    /\ notebookFile = <<>>
    /\ tp = noTp
    /\ pw = noPw
    /\ log = {}
    /\ exit = "running"

TabSpec == TabInit /\ [][TabNext]_vars

\* the extraction alone: reading the notebook and the extraction loop of
\* convert_with_playwright_direct, on every notebook within the bounds
ExtractInit ==
    /\ now = 0
    /\ tabOpen = FALSE
    /\ tab = blankTab
    /\ pc = "pw_read"
    /\ args = [page_size |-> "a4", orientation |-> "portrait", method |-> "playwright",
               output |-> "None"]
    /\ environ = ""
    /\ files = sourceFiles
    /\ \E m \in 0 .. MaxCells : notebookFile \in NotebooksOf(m)
    /\ tp = noTp
    /\ pw = [noPw EXCEPT !.width = resolveDimensions("a4", "portrait")[2],
                      !.height = resolveDimensions("a4", "portrait")[3]]
    /\ log = {}
    /\ exit = "running"

ExtractNext == PwRead \/ PwExtract

ExtractSpec == ExtractInit /\ [][ExtractNext]_vars

\* the timers and events of the page are served, and time passes
TabFairness ==
    /\ WF_vars(ScriptRuns)
    /\ WF_vars(DomContentLoaded)
    /\ WF_vars(PollTimerFires)
    /\ WF_vars(RenderTimeoutFires)
    /\ WF_vars(AdvanceTime)

TabFairSpec == TabSpec /\ TabFairness

-----------------------------------------------------------------------------
(* Properties of the in-tab coordinator *)

total == Len(tab.plotlyChartsData)
elapsed == now - tab.plotlyLoadStartTime
resolvedDraws == {i \in 1 .. Len(tab.draws) : tab.draws[i].status # "pending"}

\* C1: once rendering has started (total > 0, library present), as soon as
\* every issued draw has resolved -- fulfilled, rejected or thrown, in any
\* mix and order -- plotlyRenderingComplete is set, whether or not the
\* 120000 ms timer has fired.
C1_CompleteWhenAllResolved ==
    (tab.plotlyRenderStarted /\ Cardinality(resolvedDraws) = total)
        => tab.plotlyRenderingComplete

\* C1 witness: two draws, one failed and one fulfilled, Complete set while
\* the 120000 ms timer is still pending and failed is not set.
C1_Witness ==
    /\ tab.plotlyRenderStarted
    /\ total = 2
    /\ Cardinality(resolvedDraws) = total
    /\ \E i, j \in 1 .. total : tab.draws[i].status = "rejected" /\ tab.draws[j].status = "fulfilled"
    /\ tab.renderTimers # {}
    /\ ~tab.plotlyRenderFailed
    /\ tab.plotlyRenderingComplete

\* C3: with zero chart payloads the coordinator never polls, never starts
\* rendering, never fails and arms no timer; Complete is unset while the
\* document is not ready and set from the moment the ready callback has run.
C3_EmptyGoesStraightToComplete ==
    total = 0 =>
        /\ ~tab.plotlyRenderStarted
        /\ ~tab.plotlyRenderFailed
        /\ tab.pollTimers = {}
        /\ tab.renderTimers = {}
        /\ tab.draws = <<>>
        /\ tab.plotlyRenderingComplete = (tab.scripted /\ ~tab.listener)

\* C3 witness: no payloads, library absent, DOMContentLoaded has fired.
C3_Witness ==
    /\ total = 0
    /\ ~tab.Plotly
    /\ tab.readyState = "loading"
    /\ now > 0
    /\ ~tab.listener
    /\ tab.plotlyRenderingComplete

\* C4 as stated: with the library still undefined, Complete is set no later
\* than the instant the elapsed time reaches the 60000 ms ceiling.
C4_Original ==
    (total > 0 /\ ~tab.Plotly /\ ~tab.plotlyRenderStarted
        /\ elapsed >= LoadCeiling /\ ~TabUrgent)
        => tab.plotlyRenderingComplete

\* C4 amended: the load timeout sets failed and Complete only at a run of
\* renderPlotlyCharts whose elapsed time is strictly greater than 60000 ms
\* (never at the ceiling itself), and with polls firing 250 ms apart it has
\* done so once 60000 + 250 ms have elapsed.
C4_FailsAfterCeilingWithinOnePoll ==
    /\ (tab.plotlyRenderFailed /\ ~tab.plotlyRenderStarted) => elapsed > LoadCeiling
    /\ (total > 0 /\ ~tab.plotlyRenderStarted /\ ~tab.plotlyRenderingComplete)
          => elapsed <= LoadCeiling + PollInterval
    /\ (total > 0 /\ ~tab.Plotly /\ elapsed >= LoadCeiling + PollInterval /\ ~TabUrgent)
          => (tab.plotlyRenderFailed /\ tab.plotlyRenderingComplete)

\* C4 witness: library never appeared, the poll at 60250 ms has failed the load.
C4_Witness ==
    /\ total > 0
    /\ ~tab.Plotly
    /\ ~tab.plotlyRenderStarted
    /\ tab.plotlyRenderFailed
    /\ tab.plotlyRenderingComplete
    /\ elapsed = LoadCeiling + PollInterval

\* C5: under fair timers, from every state Complete is eventually set.
C5_ForwardProgress == (~tab.plotlyRenderingComplete) ~> tab.plotlyRenderingComplete

\* C5 witness: rendering started, a draw never resolved, the 120000 ms timer
\* forced failed and Complete.
C5_Witness ==
    /\ tab.plotlyRenderStarted
    /\ \E i \in 1 .. Len(tab.draws) : tab.draws[i].status = "pending"
    /\ tab.plotlyRenderFailed
    /\ tab.plotlyRenderingComplete
    /\ tab.renderTimers = {}

\* C8 as stated (on documents whose only placeholder-class elements are the
\* injected ones): payload k is drawn into the placeholder numbered k when
\* the document holds it, and into the fallback container only when it does not.
C8_PayloadIntoOwnPlaceholder ==
    (tab.plotlyRenderStarted
        /\ \A i \in 1 .. Len(tab.placeholders) : tab.placeholders[i] # ForeignId) =>
        \A k \in chartIndexes(total) :
            tab.draws[k + 1].target =
                (IF \E i \in 1 .. Len(tab.placeholders) : tab.placeholders[i] = PlaceholderId(k)
                 THEN PlaceholderId(k)
                 ELSE FallbackId)

-----------------------------------------------------------------------------
(* Properties of the host *)

\* what the host prints when something went wrong with the charts
ChartWarnings == {"warn: Plotly rendering timeout"}

\* C2 as stated: when a chart draw failed during a conversion, the operator
\* is told of it on the host's warning channel, and the run is not aborted
\* (the snapshot is issued and only a failing snapshot or size query can make
\* the conversion fail).
C2_DrawFailureReportedToOperator ==
    \A i \in 1 .. Len(pw.pdf) :
        pw.pdf[i].chartsFailed # {} =>
            /\ log \cap ChartWarnings # {}
            /\ pw.result = "False" => pw.raised \in {"pdf", "getsize"}

\* C6: a timed-out host wait is logged and is soft: the host goes on to the
\* snapshot, the conversion that has returned has issued page.pdf, and it
\* has failed only if page.pdf or the size query raised.
C6_TimeoutsAreSoft ==
    /\ pw.timedOut \cap {"plotly", "complete"} # {} => "warn: Plotly rendering timeout" \in log
    /\ "mathjax" \in pw.timedOut => "warn: MathJax wait skipped" \in log
    /\ pw.timedOut # {} =>
          /\ pc \in {"wait_mathjax", "settle_math", "pw_settle", "pw_getsize", "main_exit", "done"}
          /\ pc \in {"pw_getsize", "main_exit", "done"} => Len(pw.pdf) = 1
          /\ pw.result = "False" => pw.raised \in {"pdf", "getsize"}

\* C6 witness: the library wait and the typesetting wait both timed out, the
\* snapshot was issued and the conversion returned success.
C6_Witness ==
    /\ pw.timedOut = {"plotly", "mathjax"}
    /\ Len(pw.pdf) = 1
    /\ pw.result = "True"

\* C7: when no host wait timed out, a snapshot is issued only after the host
\* waited for the library and saw Complete (charts exist) and only after the
\* typeset pass came back (math detected); without charts there is no
\* library/Complete wait, without math no typesetting wait.
C7_SnapshotAfterWaits ==
    /\ \A i \in 1 .. Len(pw.pdf) :
          pw.timedOut = {} =>
             /\ Len(pw.plotly_charts) > 0 =>
                   {"plotly", "complete"} \subseteq pw.waited /\ pw.pdf[i].chartsComplete
             /\ pw.has_math =>
                   /\ "mathjax" \in pw.waited
                   /\ pw.typeset # "none"
                   /\ pw.typeset = "returned" => pw.pdf[i].typesetPasses = 1
    /\ Len(pw.plotly_charts) = 0 => pw.waited \cap {"plotly", "complete"} = {}
    /\ ~pw.has_math => "mathjax" \notin pw.waited /\ pw.typeset = "none"

\* C7 witness: two charts and math, no timeout, the snapshot shows the
\* completed charts and the typeset pass.
C7_Witness ==
    /\ Len(pw.plotly_charts) = 2
    /\ pw.has_math
    /\ pw.timedOut = {}
    /\ Len(pw.pdf) = 1
    /\ pw.pdf[1].chartsComplete
    /\ pw.pdf[1].typesetPasses = 1

\* the positions <<cell, output>> of a notebook, and document order on them
positions(nb) == {<<c, o>> : c \in 1 .. MaxCells + 1, o \in 1 .. MaxOutputs + 1} \cap
                 {q \in (1 .. Len(nb)) \X (1 .. MaxOutputs + 1) : q[2] <= Len(nb[q[1]].outputs)}
before(q, r) == q[1] < r[1] \/ (q[1] = r[1] /\ q[2] < r[2])
outputAt(nb, q) == nb[q[1]].outputs[q[2]]
hasHtml(output) == output.hasData /\ HtmlMime \in DOMAIN output.data

\* the outputs of the extracted notebook that hold a placeholder
placed == {q \in positions(pw.notebook) : hasHtml(outputAt(pw.notebook, q))}
rank(q) == Cardinality({r \in placed : before(r, q)})

\* C9: after the extraction loop, as many placeholders were inserted as
\* payloads extracted; in document order the placeholders carry the ids
\* 0 .. n-1, and the placeholder with id k sits in the output of the source
\* notebook that yielded payload k.
C9_PlaceholdersMatchPayloads ==
    pc = "pw_export" =>
        /\ Cardinality(placed) = Len(pw.plotly_charts)
        /\ \A q \in placed :
              /\ outputAt(pw.notebook, q).data[HtmlMime] = placeholderDiv(PlaceholderId(rank(q)))
              /\ hasPlotly(outputAt(notebookFile, q))
              /\ outputAt(notebookFile, q).data[PlotlyMime] = pw.plotly_charts[rank(q) + 1]
        /\ \A q \in positions(notebookFile) :
              (notebookFile[q[1]].cell_type = "code" /\ hasPlotly(outputAt(notebookFile, q)))
                 => q \in placed

\* C9 witness: a markdown cell whose chart is skipped, then a code cell with
\* two charts that get the ids 0 and 1.
C9_Witness ==
    /\ pc = "pw_export"
    /\ Len(notebookFile) = 2
    /\ notebookFile[1].cell_type = "markdown"
    /\ Len(notebookFile[1].outputs) > 0 /\ hasPlotly(notebookFile[1].outputs[1])
    /\ pw.plotly_charts = <<Payload(2, 1), Payload(2, 2)>>
    /\ placed = {<<2, 1>>, <<2, 2>>}

\* a frame holds the table's dimensions for the page size and orientation
\* of the command line, swapped iff the orientation is landscape
tableDimensions(width, height) ==
    /\ Lower(args.page_size) \in DOMAIN PAGE_SIZES
    /\ args.orientation = "portrait" => <<width, height>> = PAGE_SIZES[Lower(args.page_size)]
    /\ args.orientation = "landscape" => <<height, width>> = PAGE_SIZES[Lower(args.page_size)]

\* C10: for every key of PAGE_SIZES and both orientations, what either
\* conversion resolved is the table value, swapped iff landscape, it stays
\* so until the conversion returns, and page.pdf is given exactly it.
C10_ResolvedDimensions ==
    /\ (pc \in {"tp_template", "tp_export", "tp_write", "tp_getsize"} \/ tp.result = "True")
          => tableDimensions(tp.width, tp.height)
    /\ tp.template_file # "None" => tableDimensions(tp.template.width, tp.template.height)
    /\ (pw.result = "True" \/ pc \notin {"none", "main", "tp_resolve", "tp_template", "tp_export",
                                        "tp_write", "tp_getsize", "main_pw",
                                        "pw_import", "pw_resolve", "main_exit", "done"})
          => tableDimensions(pw.width, pw.height)
    /\ \A i \in 1 .. Len(pw.pdf) :
          /\ tableDimensions(pw.pdf[i].width, pw.pdf[i].height)
          /\ pw.pdf[i].width = pw.width /\ pw.pdf[i].height = pw.height

\* C10 witness: a3 landscape with two charts: page.pdf is given 420 by 297.
C10_Witness ==
    /\ args.page_size = "a3" /\ args.orientation = "landscape"
    /\ Len(pw.plotly_charts) = 2
    /\ Len(pw.pdf) = 1
    /\ pw.pdf[1].width = 420 /\ pw.pdf[1].height = 297
    /\ pw.result = "True"

-----------------------------------------------------------------------------
(* Properties of the conversion operations: page size, files, results *)

unknownKey == Lower(args.page_size) \notin DOMAIN PAGE_SIZES
tpReturned == tp.result # "none"
pwReturned == pw.result # "none"
exists(path) == path \in DOMAIN files

\* C11: given a size key the table does not hold, a conversion operation
\* carries on: it does not return failure on account of the key (if it
\* returns failure, some later step raised), and it reports a warning.
C11_UnknownKeyFallsBack ==
    unknownKey =>
        /\ (tp.result = "False" => tp.raised # "none")
        /\ (pw.result = "False" => pw.raised # "none")
        /\ ((tpReturned \/ pwReturned) => \E m \in log : m = "warn: Unknown page size")

\* C12: when a conversion operation has returned, the temporary files it
\* created (the template; the notebook copy and the rendered HTML) no longer
\* exist, whatever the exit path.
C12_TempFilesRemoved ==
    /\ tpReturned => ~exists(TemplateTemp)
    /\ pwReturned => (~exists(NotebookTemp) /\ ~exists(HtmlTemp))

\* C13: in debug mode the debug HTML file that convert_with_playwright_direct
\* wrote still exists after the operation has returned.
C13_DebugHtmlPersists ==
    (environ = "1" /\ pwReturned /\ pw.debug_html # "None") => exists(pw.debug_html)

\* C14: whenever a conversion operation has returned failure, no PDF written
\* by that operation, whole or partial, is at its output path.
C14_NoPdfOnFailure ==
    /\ (tp.result = "False" /\ tp.output_file # "None" /\ exists(tp.output_file))
          => files[tp.output_file] \notin {"pdf by template", "partial pdf by template"}
    /\ (pw.result = "False" /\ pw.output_file # "None" /\ exists(pw.output_file))
          => files[pw.output_file] \notin {"pdf by playwright", "partial pdf by playwright"}

templateSelected == args.method \in {"template", "both"}
playwrightMethodSelected == args.method \in {"playwright", "both"}
everySelectedSucceeded ==
    /\ templateSelected => tp.result = "True"
    /\ playwrightMethodSelected => pw.result = "True"

\* C15: an exception raised inside a conversion operation becomes the result
\* False of that operation, which returns to main; main exits with status 0
\* iff every method selected by --method returned True, with 1 otherwise.
C15_FailuresBecomeExitStatus ==
    /\ tp.raised # "none" => (tp.result = "False" /\ exit \in {"running", "1"})
    /\ pw.raised # "none" => (pw.result = "False" /\ exit \in {"running", "1"})
    /\ pc = "done" <=> exit # "running"
    /\ pc = "done" => (exit = "0" <=> everySelectedSucceeded)
    /\ pc = "done" => exit \in {"0", "1"}

\* C15 witness: --method both, an exception in the template method, the
\* playwright method succeeds, exit status 1.
C15_Witness ==
    /\ pc = "done"
    /\ args.method = "both"
    /\ tp.raised = "export" /\ tp.result = "False"
    /\ pw.result = "True"
    /\ exit = "1"

\* C16: with --method both each method is called exactly once whatever the
\* other returned; the failed import of the browser automation library
\* makes convert_with_playwright_direct return False and leaves the
\* template method's result and every file as they were.
C16_BothMethodsAttemptedOnce ==
    [][/\ tp'.calls <= 1 /\ pw'.calls <= 1
       /\ (pc' = "done" /\ args.method = "both") => (tp'.calls = 1 /\ pw'.calls = 1)
       /\ pc = "pw_import" =>
             /\ tp' = tp /\ files' = files
             /\ pw'.raised = "import" => (pw'.result = "False" /\ pc' = "main_exit")]_vars

\* C16 witness: --method both, the template method has written its PDF and
\* returned True, the import fails, main has exited with 1.
C16_Witness ==
    /\ pc = "done"
    /\ args.method = "both"
    /\ tp.calls = 1 /\ tp.result = "True"
    /\ exists(tp.output_file) /\ files[tp.output_file] = "pdf by template"
    /\ pw.calls = 1 /\ pw.raised = "import" /\ pw.result = "False"
    /\ exit = "1"

-----------------------------------------------------------------------------
(* Further properties of the in-tab coordinator and of the extraction *)

\* C17: once plotlyRenderingComplete is true, no step of the tab makes it
\* false again.
C17_CompleteIsTerminal ==
    [][tab.plotlyRenderingComplete => tab'.plotlyRenderingComplete]_vars

\* C17 witness: the 120000 ms timer forced Complete while draws were
\* outstanding, and every draw has resolved since; Complete is still set.
C17_Witness ==
    /\ tab.plotlyRenderStarted
    /\ tab.plotlyRenderFailed
    /\ tab.renderTimers = {}
    /\ total = 2
    /\ Cardinality(resolvedDraws) = total
    /\ tab.plotlyRenderingComplete

\* C18: after the extraction loop, running it again, on the source notebook
\* or on the notebook the first run left behind, yields the same payloads
\* in the same order and the same placeholders in the same outputs.
C18_ExtractionRepeatable ==
    pc = "pw_export" =>
        LET same == extractPlotly(notebookFile)
            again == extractPlotly(pw.notebook)
        IN  /\ same.plotly_charts = pw.plotly_charts
            /\ same.notebook = pw.notebook
            /\ again.plotly_charts = pw.plotly_charts
            /\ again.notebook = pw.notebook

\* C18 witness: a notebook with two charts has been through the extraction,
\* which changed it.
C18_Witness ==
    /\ pc = "pw_export"
    /\ Len(pw.plotly_charts) = 2
    /\ pw.notebook # notebookFile

\* C19: before Rendering no draw has been issued; once Rendering is entered
\* there is exactly one draw per payload, payload k being draw k, whatever
\* the placeholders; Rendering is never left or entered again, no draw is
\* added, and a resolved draw (failed or not) stays as it is.
C19_OneDrawPerPayload ==
    /\ [](/\ ~tab.plotlyRenderStarted => Len(tab.draws) = 0
          /\ tab.plotlyRenderStarted =>
                /\ Len(tab.draws) = total
                /\ \A i \in 1 .. total : tab.draws[i].data = tab.plotlyChartsData[i])
    /\ [][tab.plotlyRenderStarted =>
             /\ tab'.plotlyRenderStarted
             /\ Len(tab'.draws) = Len(tab.draws)
             /\ \A i \in 1 .. Len(tab.draws) :
                   tab.draws[i].status # "pending" => tab'.draws[i] = tab.draws[i]]_vars

\* C19 witness: two payloads, a single placeholder-class element in the
\* document, two draws issued, one of them failed and the other fulfilled.
C19_Witness ==
    /\ tab.plotlyRenderStarted
    /\ total = 2
    /\ Len(tab.placeholders) = 1
    /\ Len(tab.draws) = 2
    /\ tab.draws[1].status = "rejected"
    /\ tab.draws[2].status = "fulfilled"

\* C20: plotlyRenderingComplete is set only if total = 0, or the count has
\* reached total, or failed is set; so with total > 0, no timeout fired and
\* a draw outstanding, it is not set.
C20_CompleteOnlyWhenDone ==
    /\ tab.plotlyRenderingComplete =>
          \/ total = 0
          \/ tab.plotlyRenderedCount >= total
          \/ tab.plotlyRenderFailed
    /\ (total > 0 /\ ~tab.plotlyRenderFailed
          /\ (~tab.plotlyRenderStarted \/ Cardinality(resolvedDraws) < total))
          => ~tab.plotlyRenderingComplete

\* C20 witness: two draws issued, one has failed, the other is outstanding,
\* no timeout has fired: Complete is not set.
C20_Witness ==
    /\ tab.plotlyRenderStarted
    /\ total = 2
    /\ tab.draws[1].status \in {"rejected", "threw"}
    /\ tab.draws[2].status = "pending"
    /\ ~tab.plotlyRenderFailed
    /\ ~tab.plotlyRenderingComplete

\* C21: plotlyRenderedCount is the number of draws that have resolved
\* (fulfilled, rejected or thrown, each counted once), so it lies between 0
\* and total and is 0 until Rendering is entered; it never decreases.
C21_CountIsResolvedDraws ==
    /\ [](/\ tab.plotlyRenderedCount = Cardinality(resolvedDraws)
          /\ 0 <= tab.plotlyRenderedCount /\ tab.plotlyRenderedCount <= total
          /\ ~tab.plotlyRenderStarted => tab.plotlyRenderedCount = 0)
    /\ [][tab'.plotlyRenderedCount >= tab.plotlyRenderedCount]_vars

\* C21 witness: three ways of resolving are counted alike: of two draws one
\* threw synchronously and one was fulfilled, and the count is 2.
C21_Witness ==
    /\ tab.plotlyRenderStarted
    /\ total = 2
    /\ tab.draws[1].status = "threw"
    /\ tab.draws[2].status = "fulfilled"
    /\ tab.plotlyRenderedCount = 2

\* the two events that may set plotlyRenderFailed: renderPlotlyCharts runs
\* past the load ceiling without the library, or a 120000 ms timer is due
libraryTimeoutDue ==
    ~tab.Plotly /\ ~tab.plotlyRenderStarted /\ total > 0 /\ elapsed > LoadCeiling
renderTimeoutDue == \E due \in tab.renderTimers : due <= now

\* C22: plotlyRenderFailed implies plotlyRenderingComplete in every state;
\* once set it stays set; and the step that sets it is the library-load
\* timeout or the 120000 ms timer, a step that resolves no draw and leaves
\* the count and the last error alone.
C22_FailedOnlyByTimeouts ==
    /\ [](tab.plotlyRenderFailed => tab.plotlyRenderingComplete)
    /\ [][tab.plotlyRenderFailed => tab'.plotlyRenderFailed]_vars
    /\ [][(~tab.plotlyRenderFailed /\ tab'.plotlyRenderFailed) =>
             /\ libraryTimeoutDue \/ renderTimeoutDue
             /\ tab'.draws = tab.draws
             /\ tab'.plotlyRenderedCount = tab.plotlyRenderedCount
             /\ tab'.plotlyLastError = tab.plotlyLastError]_vars

\* C22 witness: every draw failed, which recorded the last error, reached
\* the count and set Complete, and failed is not set.
C22_Witness ==
    /\ tab.plotlyRenderStarted
    /\ total = 2
    /\ \A i \in 1 .. total : tab.draws[i].status \in {"rejected", "threw"}
    /\ tab.plotlyLastError # "null"
    /\ tab.plotlyRenderedCount = total
    /\ tab.plotlyRenderingComplete
    /\ ~tab.plotlyRenderFailed

-----------------------------------------------------------------------------
(* Host and coordinator together; output paths; the source notebook *)

\* the instant the host's wait for the Complete flag began, which is when
\* its wait for the library symbol returned
completeWaitStart == pw.deadline - PlotlyCompleteTimeout

\* C23: the host's wait for the Complete flag, entered once the library
\* symbol was seen within the first wait, never times out: while it lasts
\* and Complete is not set, the coordinator is at most one poll away from
\* Rendering, or in Rendering with its 120000 ms timer due no later than
\* 250 + 120000 ms after the wait began, which is before the wait's deadline.
C23_CompleteWaitNeverTimesOut ==
    /\ "complete" \notin pw.timedOut
    /\ (pc = "wait_complete" /\ ~tab.plotlyRenderingComplete) =>
          /\ now < pw.deadline
          /\ ~tab.plotlyRenderStarted =>
                \E due \in tab.pollTimers : due <= completeWaitStart + PollInterval
          /\ tab.plotlyRenderStarted =>
                \E due \in tab.renderTimers :
                    /\ due <= completeWaitStart + PollInterval + RenderTimeout
                    /\ due < pw.deadline

\* C23 witness: the host saw the library in time and then saw Complete, set
\* by the 120000 ms timer while a draw was still outstanding.
C23_Witness ==
    /\ pc = "settle_plotly"
    /\ "plotly" \notin pw.timedOut
    /\ tab.plotlyRenderStarted
    /\ tab.plotlyRenderFailed
    /\ tab.plotlyRenderingComplete
    /\ \E i \in 1 .. Len(tab.draws) : tab.draws[i].status = "pending"

\* C24: with --method both the two operations write to different paths, so
\* after the template method has returned True its PDF stays at its path.
C24_SeparateOutputFiles ==
    args.method = "both" =>
        /\ (tp.output_file # "None" /\ pw.output_file # "None")
              => tp.output_file # pw.output_file
        /\ tp.result = "True"
              => (exists(tp.output_file) /\ files[tp.output_file] = "pdf by template")

\* C25: no step changes the input notebook file: it stays where it is with
\* the content it had, and the parsed source is what it was.
C25_SourceNotebookUntouched ==
    [][/\ NotebookPath \in DOMAIN files'
       /\ files'[NotebookPath] = files[NotebookPath]
       /\ notebookFile' = notebookFile]_vars

\* C25 witness: convert_with_playwright_direct has returned True with two
\* placeholders in its in-memory notebook, and the input file holds the
\* source.
C25_Witness ==
    /\ pw.result = "True"
    /\ Len(pw.plotly_charts) = 2
    /\ pw.notebook # notebookFile
    /\ files[NotebookPath] = "ipynb"
    /\ ~exists(NotebookTemp)

====
